---------------------------- MODULE Spec2Model ----------------------------
(***************************************************************************)
(* A model of Project-Scotch.                                              *)
(*                                                                         *)
(*   src/Objects/NewMatcher.py  Matcher.optimized_lcs, process_partition,  *)
(*                              find_best_lcs        (SpecLcs, SpecSearch) *)
(*   src/Objects/Utilities.py   Utility.get_partition_metadata (SpecSearch)*)
(*                              Utility.archive_multipgn      (SpecArchive)*)
(*   src/Objects/Matcher.py     Matcher.find_match   (SpecMatch)           *)
(*   src/Objects/Application.py run_with_timeout     (SpecTimeout)         *)
(*   src/Objects/Position.py    Position             (SpecPosition)        *)
(*   src/Objects/Parser.py      Parser.get_positions (SpecParser)          *)
(*   src/Objects/Navigator.py   Navigator            (SpecNavigator)       *)
(*                                                                         *)
(* Python values that can be an exception are records [err, val]: err is   *)
(* "none" for a normal return and the exception's class name otherwise.    *)
(***************************************************************************)
EXTENDS Integers, Sequences, FiniteSets, TLC

VARIABLES
    \* ---- Matcher.optimized_lcs (NewMatcher.py) ----
    nep50,          \* the NumPy build: TRUE = NumPy >= 2 scalar promotion
    short_seq,      \* argument short_seq
    long_seq,       \* argument long_seq
    lcs_pc,         \* "call" before the call, "done" after it
    lcs_result,     \* what the call returned or raised
    \* ---- Utility.get_partition_metadata (Utilities.py) ----
    pq_dir,         \* os.listdir(self.pq_path), in the order the OS lists it
    meta_pc,        \* "call" before get_partition_metadata, "done" after it
    metadata,       \* the returned dict, as <<key, value>> pairs in insertion order
    \* ---- Matcher of NewMatcher.py: process_partition, find_best_lcs ----
    bitboard_sums,  \* self.bitboard_sums, set by __init__
    partitions,     \* self.partitions, set by __init__
    fb_pc,          \* "idle", "start", "loop", "compute", "done", "pp_done"
    sorted_partitions,
    fb_i,           \* position of the for loop in sorted_partitions
    best_lcs_length,
    issued,         \* the dask tasks created so far, in order
    fb_result,      \* what find_best_lcs / process_partition returned or raised
    \* ---- Matcher of Matcher.py: find_match ----
    storage,        \* self.storage: [present, games]; present = FALSE is None
    positions,      \* self.positions, the positions of the submitted game
    match,          \* self.match
    exact_match,    \* self.exact_match
    fm_pc,          \* "idle", "call", "done"
    fm_result,      \* what find_match returned or raised
    str_pc,         \* "idle", "call" before str(matcher), "done" after it
    str_result,     \* what Matcher.__str__ returned or raised
    df_pc,          \* "idle", "call" before create_dataframe(parser), "done" after
    df_result,      \* what Utility.create_dataframe returned or raised
    \* ---- run_with_timeout (Application.py) ----
    timeout,        \* argument timeout, in minutes
    func_work,      \* the steps func takes before it ends
    func_fails,     \* TRUE: func ends by raising an exception
    func_done,      \* the steps func has taken: the best it has found so far
    clock,          \* seconds since timer.start()
    timer,          \* "unset", "waiting", "fired" (about to call stop_program),
                    \*   "exited" (stop_program ran), "cancelled"
    printed,        \* stop_program has printed its message
    rt_pc,          \* "idle", "call", "running", "returned", "raised"
    rt_value,       \* what run_with_timeout handed to its caller
    \* ---- a Position (Position.py) ----
    pos_bitboards,     \* self.bitboards: the twelve masks, in the dict's order
    pos_move_history,  \* self.move_history
    pos_white_turn,    \* self.white_turn
    pos_move_number,   \* self.move_number
    pos_move_notation, \* self.move_notation
    pos_final_move,    \* self.final_move
    pos_source,        \* <<board>>, the board from_chess_board was given, or <<>>
    pos_board,         \* what get_board() returned, or "None" before the call
    pos_pc,            \* "idle", "new" after Position(), "built" by
                       \*   from_chess_board, "shown" after get_board()
    \* ---- Parser.get_positions (Parser.py) ----
    gp_game,           \* self.game: [first_turn, moves], who moves first (TRUE =
                       \*   White) and the mainline moves in SAN
    gp_user_submitted, \* argument user_submitted
    gp_board_turn,     \* board.turn
    gp_move_number,    \* local move_number
    gp_next,           \* how many mainline moves the for loop has taken
    gp_positions,      \* local positions; the returned list once gp_pc = "done"
    gp_pc,             \* "idle", "call", "loop", "done"
    \* Navigator, Navigator.py
    nav_parser1,       \* self.parser1: the number of its positions
    nav_parser2,       \* self.parser2: <<>> for None, else <<number of positions>>
    nav_indices,       \* self.indices: <<>> for None, else
                       \*   <<<<start1, end1>>, <<start2, end2>>>>
    nav_is_parser1,    \* self.is_parser1
    nav_index,         \* self.index
    nav_buttons,       \* the state option of each tk.Button
    nav_event,         \* the last callback: its handler, what fired it, the
                       \*   index before it and the exception it raised
    nav_pc,            \* "idle", "constructed", "mainloop", "crashed"
    \* Utility.archive_multipgn, Utilities.py
    am_file,           \* the games of the PGN file, in order: for each whether
                       \*   processing it raises chess.IllegalMoveError
    am_read,           \* how many games have been read from the file
    am_game,           \* local game: <<>> for None, else <<its place in the file>>
    am_dataframes,     \* local dataframes
    am_last,           \* what the last pass of the while loop did
    am_pc              \* "idle", "call", "while", "try", "after", "completed",
                       \*   "raised"

lcsVars == <<nep50, short_seq, long_seq, lcs_pc, lcs_result>>

metaVars == <<pq_dir, meta_pc, metadata>>

searchVars == <<bitboard_sums, partitions, fb_pc, sorted_partitions, fb_i,
                best_lcs_length, issued, fb_result>>

matchVars == <<storage, positions, match, exact_match, fm_pc, fm_result,
              str_pc, str_result, df_pc, df_result>>

timeoutVars == <<timeout, func_work, func_fails, func_done, clock, timer,
                printed, rt_pc, rt_value>>

positionVars == <<pos_bitboards, pos_move_history, pos_white_turn,
                 pos_move_number, pos_move_notation, pos_final_move,
                 pos_source, pos_board, pos_pc>>

parserVars == <<gp_game, gp_user_submitted, gp_board_turn, gp_move_number,
               gp_next, gp_positions, gp_pc>>

navVars == <<nav_parser1, nav_parser2, nav_indices, nav_is_parser1, nav_index,
            nav_buttons, nav_event, nav_pc>>

archiveVars == <<am_file, am_read, am_game, am_dataframes, am_last, am_pc>>

vars == <<navVars, archiveVars,
          lcsVars, metaVars, searchVars, matchVars, timeoutVars, positionVars,
          parserVars>>

---------------------------------------------------------------------------
(* Bounds of the model.                                                     *)

MaxSym == 2     \* signatures are drawn from 1..MaxSym
MaxLen == 3     \* enumerated sequences have at most MaxLen elements
MaxPly == 3     \* partition keys (total_ply) are drawn from 1..MaxPly
MaxGames == 2   \* a partition holds 1..MaxGames games
MaxQuery == 2   \* a query has 1..MaxQuery positions
MaxStored == 2  \* the storage holds 0..MaxStored games
MaxTimeout == 2 \* the time bound is 1..MaxTimeout minutes
MaxWork == 3    \* func takes 0..MaxWork steps
MaxMoves == 2   \* a Position takes 0..MaxMoves calls of apply_move
MaxMainline == 3 \* a parsed game has 0..MaxMainline mainline moves
MaxPositions == 3 \* a game shown by a Navigator has 1..MaxPositions positions
MaxFileGames == 4 \* a PGN file holds 0..MaxFileGames games

---------------------------------------------------------------------------
(* Python outcomes.                                                         *)

Ok(v)    == [err |-> "none", val |-> v]
Raise(e) == [err |-> e, val |-> 0]

Max2(a, b) == IF a >= b THEN a ELSE b
Min2(a, b) == IF a <= b THEN a ELSE b

SeqToSet(s) == {s[i] : i \in 1..Len(s)}

---------------------------------------------------------------------------
(* 64-bit words (np.uint64).  TLC's integers are 32 bits wide, so a word is *)
(* the set of the positions of its 1 bits, 0 = least significant.           *)

w == 64

ZeroWord == {}

\* (m + w - 1) // w : the number of words of an array over m positions
NumWords(m) == (m + w - 1) \div w

\* np.zeros(k, dtype = np.uint64); arrays are 1-indexed here, 0-indexed there
Zeros(k) == [j \in 1..k |-> ZeroWord]

\* a << 1 on uint64: the bit shifted out of position w-1 is lost
Shl1(a) == {b + 1 : b \in {c \in a : c + 1 < w}}

\* the carry into position i of a + b: some lower position generates a carry
\* (both bits set) and every position between propagates it (a bit set)
CarryInto(a, b, i) ==
    \E j \in 0..(i - 1) :
        /\ j \in a \cap b
        /\ \A k \in (j + 1)..(i - 1) : k \in a \cup b

\* a + b on uint64: the sum modulo 2^64 (the carry out of position w-1 is lost)
AddWord(a, b) ==
    {i \in 0..(w - 1) : ((i \in a) # (i \in b)) # CarryInto(a, b, i)}

\* bin(a >> i).count('1')
PopCountShr(a, i) == Cardinality({b \in a : b >= i})


MaxOfSet(S) == CHOOSE x \in S : \A y \in S : y <= x

---------------------------------------------------------------------------
(* Matcher.optimized_lcs, NewMatcher.py lines 16-37.                         *)
(*                                                                         *)
(* NumPy scalar promotion is fixed by the installed NumPy, not by this      *)
(* repository, so both builds are modelled.  With NumPy < 2 (np2 = FALSE)   *)
(* an operation between an np.uint64 scalar and a Python int promotes the   *)
(* int to int64 and the pair to float64, for which |=, << and >> raise      *)
(* TypeError; array-with-int operations (line 29) keep uint64.  With        *)
(* NumPy >= 2 (np2 = TRUE) the Python int adopts uint64.                    *)

\* line 19: one zeroed array of NumWords(m) words per distinct symbol of short_seq
InitBitsets(short, m) == [x \in SeqToSet(short) |-> Zeros(NumWords(m))]

\* lines 21-22: for i, x in enumerate(long_seq[1:]):
\*                  bitsets[x][(i + 1) // w] |= 1 << ((i + 1) % w)
\* i is Python's i; long_seq[1:][i] is long[i + 2] here.
RECURSIVE FillBitsets(_, _, _, _)
FillBitsets(bitsets, long, i, np2) ==
    IF i + 2 > Len(long) THEN Ok(bitsets)
    ELSE LET x   == long[i + 2]
             pos == i + 1
         IN  IF x \notin DOMAIN bitsets THEN Raise("KeyError")
             ELSE IF ~np2 THEN Raise("TypeError")
             ELSE FillBitsets(
                     [bitsets EXCEPT ![x][(pos \div w) + 1] = @ \cup {pos % w}],
                     long, i + 1, np2)

\* lines 28-31, one iteration of the loop over short_seq[1:]
\*   new_dp[:-1] = dp[:-1] | ((dp[:-1] & bitset[:-1]) + (dp[1:] & bitset[1:])) << 1
\*   new_dp[-1]  = dp[-1] | (dp[-1] & bitset[-1]) << 1
\* (<< binds tighter than |).  dp[-1] of an empty array raises IndexError.
DpStep(dp, bitset, np2) ==
    LET k == Len(dp)
    IN  IF k = 0 THEN Raise("IndexError")
        ELSE IF ~np2 THEN Raise("TypeError")
        ELSE Ok([j \in 1..k |->
                    IF j < k
                    THEN dp[j] \cup Shl1(AddWord(dp[j] \cap bitset[j],
                                                 dp[j + 1] \cap bitset[j + 1]))
                    ELSE dp[k] \cup Shl1(dp[k] \cap bitset[k])])

\* lines 26-31: for x in short_seq[1:]; short_seq[1:] starts at short[2] here
RECURSIVE DpLoop(_, _, _, _, _)
DpLoop(dp, short, t, bitsets, np2) ==
    IF t > Len(short) THEN Ok(dp)
    ELSE LET r == DpStep(dp, bitsets[short[t]], np2)
         IN  IF r.err # "none" THEN r
             ELSE DpLoop(r.val, short, t + 1, bitsets, np2)

\* line 35: sum(bin(dp[j] >> i).count('1') for j in range(dp.size))
RECURSIVE PlaneCount(_, _, _)
PlaneCount(dp, j, i) ==
    IF j > Len(dp) THEN 0 ELSE PopCountShr(dp[j], i) + PlaneCount(dp, j + 1, i)

\* lines 33-35: the maximum over i in range(w), starting from 0
CountLoop(dp, np2) ==
    IF Len(dp) >= 1 /\ ~np2 THEN Raise("TypeError")
    ELSE Ok(MaxOfSet({0} \cup {PlaneCount(dp, 1, i) : i \in 0..(w - 1)}))

\* line 24: dp = np.zeros((m + w - 1) // w, dtype = np.uint64)
InitDp(m) == Zeros(NumWords(m))

optimized_lcs(short, long, np2) ==
    LET m  == Len(long)
        bs == FillBitsets(InitBitsets(short, m), long, 0, np2)
    IN  IF bs.err # "none" THEN Raise(bs.err)
        ELSE LET dp == DpLoop(InitDp(m), short, 2, bs.val, np2)
             IN  IF dp.err # "none" THEN Raise(dp.err)
                 ELSE CountLoop(dp.val, np2)

---------------------------------------------------------------------------
(* Python values that may be a dask Delayed: [t, v].  A Delayed stands for   *)
(* a call that has not been made: v is the position in sorted_partitions    *)
(* of the partition it will be made on.                                     *)

IntV(n)     == [t |-> "int", v |-> n]
DelayedV(k) == [t |-> "Delayed", v |-> k]

\* max(a, b): the builtin evaluates bool(b > a).  A comparison with a Delayed
\* operand builds another Delayed, and Delayed.__bool__ raises TypeError.
PyMax(a, b) ==
    IF a.t = "int" /\ b.t = "int"
    THEN Ok(IF b.v > a.v THEN b ELSE a)
    ELSE Raise("TypeError")

\* if a >= n: the same, for the truth value of a >= n
PyGe(a, n) ==
    IF a.t = "int" THEN Ok(a.v >= n) ELSE Raise("TypeError")

\* SortDescOrder without reverse = True: ascending order
SortAscOrder(keys) ==
    LET rank(i) == 1 + Cardinality({j \in DOMAIN keys :
                                      \/ keys[j] < keys[i]
                                      \/ keys[j] = keys[i] /\ j < i})
    IN  [r \in DOMAIN keys |-> CHOOSE i \in DOMAIN keys : rank(i) = r]

\* sorted(..., reverse = True) over a sequence of integer keys, as the
\* sequence of the positions of `keys` in sorted order.  The sort is stable:
\* equal keys keep their original order.
SortDescOrder(keys) ==
    LET rank(i) == 1 + Cardinality({j \in DOMAIN keys :
                                      \/ keys[j] > keys[i]
                                      \/ keys[j] = keys[i] /\ j < i})
    IN  [r \in DOMAIN keys |-> CHOOSE i \in DOMAIN keys : rank(i) = r]

---------------------------------------------------------------------------
(* Utility.get_partition_metadata, Utilities.py lines 75-98.                 *)
(* A directory entry is [partition, id, files]: partition says that the     *)
(* name starts with 'total_ply=', id is the integer after the '=', files    *)
(* is the listing of the entry: [parquet, num_rows] per file.               *)

\* line 84: the entries whose name starts with f'{self.partition_col}='
PartitionEntries(dir) == SelectSeq(dir, LAMBDA d : d.partition)

\* lines 89-94: the rows of the files of a partition that end with '.parquet'
RECURSIVE TotalRows(_, _)
TotalRows(files, k) ==
    IF k > Len(files) THEN 0
    ELSE (IF files[k].parquet THEN files[k].num_rows ELSE 0) + TotalRows(files, k + 1)

\* the entry of the directory that os.path.join(pq_path, 'total_ply=<id>') names
EntryOf(dir, id) == CHOOSE k \in DOMAIN dir : dir[k].partition /\ dir[k].id = id

\* lines 84-98: the dict, as its <<key, value>> pairs in insertion order
get_partition_metadata(dir) ==
    LET parts == PartitionEntries(dir)
        ids   == [k \in DOMAIN parts |-> parts[k].id]
        order == SortDescOrder(ids)
    IN  [r \in DOMAIN ids |->
            <<ids[order[r]], TotalRows(dir[EntryOf(dir, ids[order[r]])].files, 1)>>]

---------------------------------------------------------------------------
(* Matcher of NewMatcher.py.                                                *)

\* lines 11-13: the attributes __init__ assigns
MatcherSelf(sums, parts) ==
    [parser |-> "parser", bitboard_sums |-> sums, partitions |-> parts]

\* self.<name>: AttributeError for a name the object does not have
GetAttr(self, name) ==
    IF name \in DOMAIN self THEN Ok(self[name]) ELSE Raise("AttributeError")

\* lines 40-42
process_partition(self, partition, np2) ==
    LET sequences == partition.sequences
        user      == GetAttr(self, "user_bitboard_sums")
    IN  IF user.err # "none" THEN Raise(user.err)
        ELSE optimized_lcs(user.val, sequences, np2)

\* line 46
SortedPartitions(parts) ==
    LET order == SortDescOrder([k \in DOMAIN parts |-> parts[k].total_ply])
    IN  [r \in DOMAIN parts |-> parts[order[r]]]

\* line 56: dk.compute(x)[0] runs the call a Delayed stands for and returns
\* any other value as it is
DaskCompute(self, sorted, x, np2) ==
    IF x.t = "int" THEN Ok(x.v)
    ELSE process_partition(self, sorted[x.v], np2)

---------------------------------------------------------------------------
(* Python integers of any size (a bitboard, a sum of bitboards): the set of *)
(* the positions of the 1 bits.                                             *)

NatBits(n) == {i \in 0..30 : (n \div (2 ^ i)) % 2 = 1}

BigAdd(a, b) ==
    {i \in 0..(MaxOfSet(a \cup b \cup {0}) + 1) :
        ((i \in a) # (i \in b)) # CarryInto(a, b, i)}

BigV(x) == [t |-> "bigint", v |-> x]
\* str(x) of an integer x
StrV(x) == [t |-> "str", v |-> x]

---------------------------------------------------------------------------
(* Position, Position.py.  A position is [bitboards]: the twelve masks in   *)
(* the order of the dict of Position.__init__, each the set of its squares. *)

\* lines 194-201: [str(bitboard) for bitboard in self.get_bitboards().values()]
get_bitboard_integers(position) ==
    [k \in DOMAIN position.bitboards |-> StrV(position.bitboards[k])]

\* the keys of self.bitboards in the order of the dict, named by the
\* python-chess symbol that convert_piece_symbol maps to each
PieceSymbols == <<"P", "R", "N", "B", "Q", "K", "p", "r", "n", "b", "q", "k">>

Pieces == DOMAIN PieceSymbols

\* lines 46-57: the masks Position.__init__ assigns (bit i of a literal is
\* square i; the queens stand on bit 4 and 60, the kings on bit 3 and 59)
InitBitboards ==
    <<8..15, {0, 7}, {1, 6}, {2, 5}, {4}, {3},
      48..55, {56, 63}, {57, 62}, {58, 61}, {60}, {59}>>

\* lines 163-173
convert_piece_symbol(symbol) == CHOOSE k \in Pieces : PieceSymbols[k] = symbol

\* lines 117-128: from_chess_board(board); board is [piece_at, turn]
from_chess_board(board) ==
    [bitboards  |-> [k \in Pieces |->
                        {square \in 0..63 :
                            /\ board.piece_at[square] # "None"
                            /\ convert_piece_symbol(board.piece_at[square]) = k}],
     white_turn |-> board.turn]

\* the destination set and the origin left as it is
SetDestinationOnly(bitboards, piece, origin, destination) ==
    [bitboards EXCEPT ![piece] = @ \cup {destination}]

\* the row left as square // 8, rank 1 at the top
RowUnflipped(square) == square \div 8

\* line 188: row = 7 - (square // 8)
RowOfSquare(square) == 7 - (square \div 8)

\* line 188: col = square % 8
ColOfSquare(square) == square % 8

\* lines 184-191: get_board(); rows and columns count from 0.  The pieces are
\* written in the order of the dict, a later one over an earlier one.
get_board(self) ==
    [row \in 0..7 |-> [col \in 0..7 |->
        LET here == {k \in Pieces :
                        \E square \in self.bitboards[k] :
                            RowOfSquare(square) = row /\ ColOfSquare(square) = col}
        IN  IF here = {} THEN " "
            ELSE PieceSymbols[CHOOSE k \in here : \A x \in here : x <= k]]]

\* line 149: bitboards[piece] ^= origin_bitboard | destination_bitboard
ToggleSquares(bitboards, piece, origin, destination) ==
    [bitboards EXCEPT ![piece] = (@ \ {origin, destination})
                                 \cup ({origin, destination} \ @)]

\* the loop of lines 152-156 left out: a piece standing on the destination stays
KeepCaptured(bitboards, piece, destination) == bitboards

\* lines 152-156: the first other key whose mask holds the destination loses it
RemoveCaptured(bitboards, piece, destination) ==
    LET hit == {q \in Pieces : q # piece /\ destination \in bitboards[q]}
    IN  IF hit = {} THEN bitboards
        ELSE LET q == CHOOSE x \in hit : \A y \in hit : x <= y
             IN  [bitboards EXCEPT ![q] = @ \ {destination}]

\* lines 144-160: apply_move((piece, origin, destination))
apply_move(self, move) ==
    [bitboards    |-> RemoveCaptured(
                          ToggleSquares(self.bitboards, move[1], move[2], move[3]),
                          move[1], move[3]),
     move_history |-> Append(self.move_history, move),
     white_turn   |-> ~self.white_turn]

---------------------------------------------------------------------------
(* Parser.get_positions, Parser.py lines 99-129.  A Position is here the     *)
(* record of its attributes other than bitboards; move_history holds a list *)
(* or whatever else a setter stores in it.                                  *)

PyList(l) == [t |-> "list", v |-> l]
PyBool(b) == [t |-> "bool", v |-> <<b>>]

\* Position.py lines 40-45 and 117-119: the Position from_chess_board makes
\* of a board whose turn is `turn`
PositionOfBoard(turn) ==
    [move_history   |-> PyList(<<>>),
     user_submitted |-> TRUE,
     white_turn     |-> turn,
     move_number    |-> 0,
     move_notation  |-> "Game Start",
     final_move     |-> FALSE]

\* Position.py lines 84-85: set_user_submitted assigns self.move_history
set_user_submitted(position, user_submitted) ==
    [position EXCEPT !.move_history = PyBool(user_submitted)]

\* the move number raised after every ply
AlwaysIncrement(move_number, turn) == move_number + 1

\* lines 125-126: if board.turn: move_number += 1
NextMoveNumber(move_number, turn) ==
    IF turn THEN move_number + 1 ELSE move_number

\* lines 119-123: the Position of the board after the move was pushed
PositionAfter(turn, move_number, move_notation, user_submitted) ==
    LET position == [PositionOfBoard(turn) EXCEPT
                        !.move_number   = move_number,
                        !.move_notation = move_notation]
    IN  IF ~user_submitted THEN set_user_submitted(position, FALSE)
        ELSE position

---------------------------------------------------------------------------
(* Navigator, Navigator.py.  self is the record of parser1, parser2,         *)
(* indices, is_parser1, index and buttons; of a parser only the number of   *)
(* its positions matters here.  A method gives [err, self]: the exception   *)
(* it raised ("none" if it returned) and the object as it left it.          *)

\* the tk.Button attributes of a Navigator, lines 73-81
Buttons == {"l_arrow", "r_arrow", "f_arrow", "e_arrow", "con", "div", "toggle"}

NavOk(self)       == [err |-> "none", self |-> self]
NavRaise(e, self) == [err |-> e, self |-> self]

\* lines 92-93; <<>> stands for None
get_active_parser(self) ==
    IF self.is_parser1 THEN <<self.parser1>> ELSE self.parser2

\* lines 95-96
get_end_index(self) ==
    LET parser == get_active_parser(self)
    IN  IF parser = <<>> THEN Raise("AttributeError") ELSE Ok(parser[1] - 1)

\* every arrow left enabled
AlwaysNormal(at_edge) == "normal"

\* lines 153-165: the state given to an arrow button
ArrowState(at_edge) == IF at_edge THEN "disabled" ELSE "normal"

\* lines 124, 128, 168-169: self.indices[0][k] if self.is_parser1 else
\* self.indices[1][k]
MatchIndex(self, k) ==
    self.indices[IF self.is_parser1 THEN 1 ELSE 2][k + 1]

\* lines 145-178
update_button_states(self) ==
    LET first == [self.buttons EXCEPT
                     !["f_arrow"] = ArrowState(self.index = 0),
                     !["l_arrow"] = ArrowState(self.index = 0)]
        end   == get_end_index(self)
    IN  IF end.err # "none"
        THEN NavRaise(end.err, [self EXCEPT !.buttons = first])
        ELSE
        LET arrows == [first EXCEPT
                          !["e_arrow"] = ArrowState(self.index = end.val),
                          !["r_arrow"] = ArrowState(self.index = end.val)]
        IN  IF self.parser2 # <<>>
            THEN IF self.indices = <<>>
                 THEN NavRaise("TypeError", [self EXCEPT !.buttons = arrows])
                 ELSE NavOk([self EXCEPT !.buttons =
                        [arrows EXCEPT
                            !["con"] = IF self.index # MatchIndex(self, 0)
                                       THEN "normal" ELSE "disabled",
                            !["div"] = IF self.index # MatchIndex(self, 1)
                                       THEN "normal" ELSE "disabled",
                            !["toggle"] = "normal"]])
            ELSE NavOk([self EXCEPT !.buttons =
                        [arrows EXCEPT !["con"]    = "disabled",
                                       !["div"]    = "disabled",
                                       !["toggle"] = "disabled"]])

\* lines 202-237: the position is read at line 212, the widgets are
\* configured and packed, and the buttons updated
display_position(self) ==
    LET parser == get_active_parser(self)
    IN  IF parser = <<>> THEN NavRaise("AttributeError", self)
        ELSE IF self.index >= parser[1] THEN NavRaise("IndexError", self)
        ELSE update_button_states(self)

\* lines 107-109
set_next_position(self) ==
    LET end == get_end_index(self)
    IN  IF end.err # "none" THEN NavRaise(end.err, self)
        ELSE display_position(
                [self EXCEPT !.index = IF self.index + 1 < end.val
                                       THEN self.index + 1 ELSE end.val])

\* lines 111-113
set_prev_position(self) ==
    display_position(
        [self EXCEPT !.index = IF self.index - 1 > 0 THEN self.index - 1 ELSE 0])

\* lines 115-117
set_first_position(self) ==
    display_position([self EXCEPT !.index = 0])

\* lines 119-121
set_end_position(self) ==
    LET end == get_end_index(self)
    IN  IF end.err # "none" THEN NavRaise(end.err, self)
        ELSE display_position([self EXCEPT !.index = end.val])

\* lines 123-125
set_convergence_position(self) ==
    IF self.indices = <<>> THEN NavRaise("TypeError", self)
    ELSE display_position([self EXCEPT !.index = MatchIndex(self, 0)])

\* lines 127-129
set_divergence_position(self) ==
    IF self.indices = <<>> THEN NavRaise("TypeError", self)
    ELSE display_position([self EXCEPT !.index = MatchIndex(self, 1)])

\* the index left where it was
KeepIndex(index, end) == index

\* line 142
ClampToEnd(index, end) == IF index > end THEN end ELSE index

\* lines 134-143
toggle_game(self) ==
    LET toggled == [self EXCEPT !.is_parser1 = ~self.is_parser1]
        end     == get_end_index(toggled)
    IN  IF end.err # "none" THEN NavRaise(end.err, toggled)
        ELSE display_position(
                [toggled EXCEPT !.index = ClampToEnd(toggled.index, end.val)])

\* the bound method `handler` called with no argument
CallHandler(handler, self) ==
    CASE handler = "set_next_position"        -> set_next_position(self)
      [] handler = "set_prev_position"        -> set_prev_position(self)
      [] handler = "set_first_position"       -> set_first_position(self)
      [] handler = "set_end_position"         -> set_end_position(self)
      [] handler = "set_convergence_position" -> set_convergence_position(self)
      [] handler = "set_divergence_position"  -> set_divergence_position(self)
      [] handler = "toggle_game"              -> toggle_game(self)

\* the bound method `handler` called with the event as its one argument:
\* toggle_game (line 134) takes none, the others take event = None
CallHandlerWithEvent(handler, self) ==
    IF handler = "toggle_game" THEN NavRaise("TypeError", self)
    ELSE CallHandler(handler, self)

\* lines 73-81: the command of each button
Command ==
    [b \in Buttons |->
        CASE b = "l_arrow" -> "set_prev_position"
          [] b = "r_arrow" -> "set_next_position"
          [] b = "f_arrow" -> "set_first_position"
          [] b = "e_arrow" -> "set_end_position"
          [] b = "con"     -> "set_convergence_position"
          [] b = "div"     -> "set_divergence_position"
          [] b = "toggle"  -> "toggle_game"]

Keys == {"Right", "Left", "Up", "Down", "space", "c", "d"}

\* lines 241-247: the handler bound to each key
Binding ==
    [key \in Keys |->
        CASE key = "Right" -> "set_next_position"
          [] key = "Left"  -> "set_prev_position"
          [] key = "Up"    -> "set_first_position"
          [] key = "Down"  -> "set_end_position"
          [] key = "space" -> "toggle_game"
          [] key = "c"     -> "set_convergence_position"
          [] key = "d"     -> "set_divergence_position"]

---------------------------------------------------------------------------
(* Parser.generate_id, Parser.py lines 162-172.                             *)

\* acc + x inside sum(): int + int is an int, int + str raises TypeError
PyAddToInt(acc, x) ==
    IF x.t = "bigint" THEN Ok(BigV(BigAdd(acc.v, x.v))) ELSE Raise("TypeError")

\* sum(items): the accumulator starts at the int 0
RECURSIVE PySumFrom(_, _, _)
PySumFrom(acc, items, k) ==
    IF k > Len(items) THEN Ok(acc)
    ELSE LET r == PyAddToInt(acc, items[k])
         IN  IF r.err # "none" THEN r ELSE PySumFrom(r.val, items, k + 1)

\* j for i in positions for j in i.get_bitboard_integers()
BitboardItems(poss) ==
    [k \in 1..(12 * Len(poss)) |->
        get_bitboard_integers(poss[((k - 1) \div 12) + 1])[((k - 1) % 12) + 1]]

generate_id(poss) ==
    LET total == PySumFrom(BigV({}), BitboardItems(poss), 1)
    IN  IF total.err # "none" THEN Raise(total.err)
        ELSE PyAddToInt(total.val, BigV(NatBits(Len(poss))))

---------------------------------------------------------------------------
(* Matcher of Matcher.py.  A stored row is [id, index, bitboards, pgn];     *)
(* self.match is [set, parser, indices, len], set = FALSE while it is None; *)
(* a Parser built from a pgn string is named by that string, None by "None".*)

NoneV == "None"

MatchUnset == [set |-> FALSE, parser |-> NoneV, indices |-> NoneV, len |-> 0]

\* lines 66-67
set_match(parser, indices, seq) ==
    [set |-> TRUE, parser |-> parser, indices |-> indices, len |-> seq]

\* line 46: the columns from_parquet is asked for
StorageColumns == {"id", "bitboards", "pgn"}

\* the ids of the rows in the order of their first appearance: the order in
\* which `for ... in enumerate(unique_ids)` is taken to run
RECURSIVE UniqueIds(_, _, _)
UniqueIds(rows, k, seen) ==
    IF k > Len(rows) THEN seen
    ELSE UniqueIds(rows, k + 1,
                   IF \E a \in DOMAIN seen : seen[a] = rows[k].id THEN seen
                   ELSE Append(seen, rows[k].id))

\* lines 111-118: find_sequence(g, i, j).  g['index'] is a column that line 46
\* does not load.  Every position i + k is compared with the one stored row j.
find_sequence(g, i, j, poss) ==
    IF "index" \notin StorageColumns THEN Raise("KeyError")
    ELSE LET g_filtered == SelectSeq(g, LAMBDA r : r.index = j)
         IN  IF g_filtered # <<>>
             THEN LET bb    == g_filtered[1].bitboards
                      limit == Min2(Len(poss) - i, Len(g) - j)
                      same(k) == get_bitboard_integers(poss[i + k + 1]) = bb
                  IN  Ok(CHOOSE n \in 0..limit :
                            /\ \A k \in 0..(n - 1) : same(k)
                            /\ n = limit \/ ~same(n))
             ELSE Ok(0)

\* line 124: max(find_sequence(g, i, j) for i ... for j ..., default = 0)
MaxSeq(g, poss) ==
    LET calls == {find_sequence(g, i, j, poss) :
                     i \in 0..(Len(poss) - 1), j \in 0..(Len(g) - 1)}
    IN  IF \E c \in calls : c.err # "none"
        THEN Raise((CHOOSE c \in calls : c.err # "none").err)
        ELSE Ok(MaxOfSet({0} \cup {c.val : c \in calls}))

\* lines 120-126: results, one (pgn, max_seq) per id
Results(rows, poss) ==
    LET ids == UniqueIds(rows, 1, <<>>)
    IN  [k \in DOMAIN ids |->
            LET g == SelectSeq(rows, LAMBDA r : r.id = ids[k])
            IN  [pgn |-> g[1].pgn, max_seq |-> MaxSeq(g, poss)]]

\* lines 97-132.  The result is [err, match, exact_match].
find_match(self) ==
    IF ~self.storage.present
    THEN [err |-> "none", match |-> set_match(NoneV, NoneV, 0),
          exact_match |-> self.exact_match]
    ELSE
    LET rows       == self.storage.rows
        unique_ids == {rows[k].id : k \in DOMAIN rows}
        game_id    == generate_id(self.positions)
    IN  IF game_id.err # "none"
        THEN [err |-> game_id.err, match |-> self.match,
              exact_match |-> self.exact_match]
        ELSE IF game_id.val.v \in unique_ids
        \* lines 107-109: handle_exact_match sets exact_match (lines 135-143)
        THEN [err |-> "none", match |-> set_match(NoneV, NoneV, 0),
              exact_match |-> TRUE]
        ELSE
        LET results == Results(rows, self.positions)
            failed  == {k \in DOMAIN results : results[k].max_seq.err # "none"}
        IN  IF failed # {}
            THEN [err |-> results[CHOOSE k \in failed : TRUE].max_seq.err,
                  match |-> self.match, exact_match |-> self.exact_match]
            ELSE IF results = <<>>
            \* line 131: max() of an empty sequence
            THEN [err |-> "ValueError", match |-> self.match,
                  exact_match |-> self.exact_match]
            ELSE
            \* line 131: the first result of the largest max_seq
            LET top == MaxOfSet({results[k].max_seq.val : k \in DOMAIN results})
                k0  == CHOOSE k \in DOMAIN results :
                          /\ results[k].max_seq.val = top
                          /\ \A a \in 1..(k - 1) : results[a].max_seq.val # top
            IN  [err |-> "none",
                 match |-> set_match(results[k0].pgn, NoneV, top),
                 exact_match |-> self.exact_match]

---------------------------------------------------------------------------
(* Utility.create_dataframe, Utilities.py lines 173-195.                    *)

\* Parser.py lines 38-40: the attributes Parser.__init__ assigns; the game is
\* given by the positions get_positions derives from it
ParserSelf(game) ==
    [pgn_input |-> "pgn", is_file |-> FALSE, game |-> game]

\* lines 182-195.  The result is the rows of the DataFrame, one per ply.
create_dataframe(parser) ==
    LET poss == GetAttr(parser, "positions")
    IN  IF poss.err # "none" THEN Raise(poss.err)
        ELSE
        LET game_id == generate_id(poss.val)
            sums    == [k \in DOMAIN poss.val |->
                           GetAttr(poss.val[k], "bitboard_integers")]
        IN  IF game_id.err # "none" THEN Raise(game_id.err)
            ELSE IF \E k \in DOMAIN sums : sums[k].err # "none"
            THEN Raise("AttributeError")
            ELSE Ok([k \in DOMAIN poss.val |->
                        [game_id   |-> game_id.val,
                         pgn       |-> parser.game,
                         total_ply |-> Len(poss.val),
                         ply       |-> k - 1,
                         board_sum |-> sums[k].val]])

---------------------------------------------------------------------------
(* Utility.to_parquet(input, write = False) for a Parser, Utilities.py      *)
(* lines 150-170: any exception of create_dataframe is caught and printed,  *)
(* and None returned.  <<>> stands for None, <<df>> for a DataFrame.         *)

to_parquet(input) ==
    LET df == create_dataframe(input)
    IN  IF df.err # "none" THEN <<>> ELSE <<df.val>>

\* chess.pgn.read_game(file) after `read` games of `file` were read: the
\* place of the next game and the games read by then; <<>> at the end
read_game(file, read) ==
    IF read < Len(file)
    THEN [game |-> <<read + 1>>, read |-> read + 1]
    ELSE [game |-> <<>>, read |-> read]

---------------------------------------------------------------------------
\* lines 146-166: Matcher.__str__.  indices is None or <<<<a, b>>, <<c, d>>>>,
\* the start and end index (from 0) in the submitted and in the stored game.
Matcher__str__(self) ==
    \* line 156: match_info[0] of None
    IF ~self.match.set THEN Raise("TypeError")
    ELSE IF self.match.parser = NoneV THEN Ok("No matching games found.")
    \* line 160: match_info[1][0][0] of None
    ELSE IF self.match.indices = NoneV THEN Raise("TypeError")
    \* lines 160, 162: positions[...]
    ELSE IF \/ self.match.indices[1][1] >= Len(self.positions)
            \/ self.match.indices[1][2] >= Len(self.positions)
         THEN Raise("IndexError")
    ELSE Ok("Your closest game match is ...")

---------------------------------------------------------------------------
(* Inputs.                                                                  *)

\* every sequence over 1..MaxSym of length 0..MaxLen
BoundedSeqs == UNION {[1..k -> 1..MaxSym] : k \in 0..MaxLen}

\* the sequences of the specification's scenario A (spec.md section 8)
ScenarioQuery  == <<1, 2, 3, 4, 5>>
ScenarioStored == <<1, 2, 9, 4, 5>>

\* sequences longer than one word: w + 1 elements
LongConst == [i \in 1..(w + 1) |-> 1]
LongAlt   == [i \in 1..(w + 1) |-> 1 + (i % 2)]

LcsInputs == BoundedSeqs \cup {ScenarioQuery, ScenarioStored, LongConst, LongAlt}

\* a query: Parser.get_positions returns at least the starting position;
\* the queries here repeat one signature
Queries == {[i \in 1..k |-> s] : k \in 1..MaxQuery, s \in 1..MaxSym}

\* the files of a partition directory holding g games of n plies: one
\* .parquet file of n rows per game, and one file that is not a .parquet file
FilesOf(n, g) ==
    [k \in 1..(g + 1) |->
        IF k <= g THEN [parquet |-> TRUE, num_rows |-> n]
        ELSE [parquet |-> FALSE, num_rows |-> 0]]

PartitionDir(n, g) ==
    [partition |-> TRUE, id |-> n, files |-> FilesOf(n, g), games |-> g]

\* '_metadata', which dask writes beside the partition directories
OtherEntry ==
    [partition |-> FALSE, id |-> 0, files |-> <<>>, games |-> 0]

\* every listing: the partition directories of some set of keys in any order,
\* each with 1..MaxGames games, followed by '_metadata'
Listings ==
    UNION {
        {Append(l, OtherEntry) : l \in
            {l \in [1..Cardinality(K) ->
                       {PartitionDir(n, g) : n \in K, g \in 1..MaxGames}] :
                \A a, b \in DOMAIN l : a # b => l[a].id # l[b].id}}
        : K \in SUBSET (1..MaxPly)}

\* the stored game of n plies: the signatures 1, 2, .. MaxSym, 1, 2, ..
GameOf(n) == [i \in 1..n |-> 1 + ((i - 1) % MaxSym)]

\* the 'sequences' of a partition: its g games of n plies, concatenated
SequencesOf(d) == [k \in 1..(d.id * d.games) |-> GameOf(d.id)[1 + ((k - 1) % d.id)]]

\* the partitions handed to Matcher.__init__: those of the storage directory,
\* in the order of the listing
PartitionsOf(dir) ==
    LET parts == PartitionEntries(dir)
    IN  [k \in DOMAIN parts |->
            [total_ply |-> parts[k].id, sequences |-> SequencesOf(parts[k])]]

\* the positions Position.from_chess_board gives for the starting board and
\* after 1. e4, 1. e4 e5, 1. d4, 1. d4 d5 (square = 8 * rank + file)
StartBitboards ==
    <<8..15, {0, 7}, {1, 6}, {2, 5}, {3}, {4},
      48..55, {56, 63}, {57, 62}, {58, 61}, {59}, {60}>>

MovePawn(bb, who, from, to) == [bb EXCEPT ![who] = (@ \ {from}) \cup {to}]

PosStart == [bitboards |-> StartBitboards]
PosE4    == [bitboards |-> MovePawn(StartBitboards, 1, 12, 28)]
PosE4E5  == [bitboards |-> MovePawn(PosE4.bitboards, 7, 52, 36)]
PosD4    == [bitboards |-> MovePawn(StartBitboards, 1, 11, 27)]
PosD4D5  == [bitboards |-> MovePawn(PosD4.bitboards, 7, 51, 35)]

\* the games, by their pgn string
GameNames == {"*", "1. e4", "1. e4 e5", "1. d4", "1. d4 d5"}

GamePositions(pgn) ==
    CASE pgn = "*"        -> <<PosStart>>
      [] pgn = "1. e4"    -> <<PosStart, PosE4>>
      [] pgn = "1. e4 e5" -> <<PosStart, PosE4, PosE4E5>>
      [] pgn = "1. d4"    -> <<PosStart, PosD4>>
      [] pgn = "1. d4 d5" -> <<PosStart, PosD4, PosD4D5>>

\* the id stored with a game: the sum of the bitboards of its positions plus
\* the number of its positions (the docstring of Parser.generate_id)
\* (the sum of the integers `sets`, column by column from bit i upwards)
RECURSIVE SumBits(_, _, _)
SumBits(sets, i, carry) ==
    IF carry = 0 /\ \A k \in DOMAIN sets : \A b \in sets[k] : b < i THEN {}
    ELSE LET c == Cardinality({k \in DOMAIN sets : i \in sets[k]}) + carry
         IN  (IF c % 2 = 1 THEN {i} ELSE {}) \cup SumBits(sets, i + 1, c \div 2)

StoredId(poss) ==
    LET items == BitboardItems(poss)
    IN  SumBits(Append([k \in DOMAIN items |-> items[k].v], NatBits(Len(poss))), 0, 0)

\* the rows of a stored game, one per ply
RowsOfGame(pgn) ==
    LET poss == GamePositions(pgn)
        id   == StoredId(poss)
    IN  [k \in DOMAIN poss |->
            [id        |-> id,
             index     |-> k - 1,
             bitboards |-> get_bitboard_integers(poss[k]),
             pgn       |-> pgn]]

RECURSIVE RowsOfGames(_, _)
RowsOfGames(names, k) ==
    IF k > Len(names) THEN <<>> ELSE RowsOfGame(names[k]) \o RowsOfGames(names, k + 1)

\* no storage, or a storage of 0..MaxStored different games in any order
Storages ==
    {[present |-> FALSE, rows |-> <<>>]} \cup
    {[present |-> TRUE, rows |-> RowsOfGames(names, 1)] :
        names \in UNION {{l \in [1..n -> GameNames] :
                            \A a, b \in 1..n : a # b => l[a] # l[b]}
                         : n \in 0..MaxStored}}

\* python-chess boards: the starting board, the board after 1. e4 d5, and an
\* ending of king and rook against king and rook
WhiteRank == <<"R", "N", "B", "Q", "K", "B", "N", "R">>
BlackRank == <<"r", "n", "b", "q", "k", "b", "n", "r">>

StartBoard ==
    [piece_at |-> [square \in 0..63 |->
                      IF square < 8 THEN WhiteRank[square + 1]
                      ELSE IF square < 16 THEN "P"
                      ELSE IF square >= 56 THEN BlackRank[square - 55]
                      ELSE IF square >= 48 THEN "p"
                      ELSE "None"],
     turn |-> TRUE]

BoardE4D5 ==
    [piece_at |-> [StartBoard.piece_at EXCEPT ![12] = "None", ![28] = "P",
                                              ![51] = "None", ![35] = "p"],
     turn |-> TRUE]

BoardRookEnding ==
    [piece_at |-> [square \in 0..63 |->
                      CASE square = 0  -> "R"
                        [] square = 4  -> "K"
                        [] square = 56 -> "r"
                        [] square = 60 -> "k"
                        [] OTHER       -> "None"],
     turn |-> FALSE]

\* one piece of each of the twelve kinds, on b1, g1, d2, a3, f3, c4, ...
BoardScattered ==
    [piece_at |-> [square \in 0..63 |->
                      IF square % 5 = 1 /\ square <= 56
                      THEN PieceSymbols[(square \div 5) + 1]
                      ELSE "None"],
     turn |-> TRUE]

Boards == {StartBoard, BoardE4D5, BoardRookEnding, BoardScattered}

\* the squares that moves start from and go to: a1, a2, a3, e4, d5, a8
MoveSquares == {0, 8, 16, 28, 35, 56}

\* the moves of parsed games, in SAN
Sans == {"e4", "Nf3"}

\* parsed games: White or (after a FEN header) Black moves first
Games ==
    {[first_turn |-> t, moves |-> ms] :
        t \in BOOLEAN,
        ms \in UNION {[1..n -> Sans] : n \in 0..MaxMainline}}

\* PGN files: of each game, whether Parser(str(game), False) raises
\* chess.IllegalMoveError
PgnFiles ==
    UNION {[1..n -> {[name |-> g, illegal |-> i] :
                        g \in {"g"}, i \in BOOLEAN}] : n \in 0..MaxFileGames}

\* the start and end of a matching run in a game of n positions
Ranges(n) == {r \in (0..(n - 1)) \X (0..(n - 1)) : r[1] <= r[2]}

---------------------------------------------------------------------------
(* The state of each component while a specification does not use it.       *)

IdleLcs ==
    /\ nep50 = TRUE
    /\ short_seq = <<>>
    /\ long_seq = <<>>
    /\ lcs_pc = "idle"
    /\ lcs_result = Ok(0)

IdleSearch ==
    /\ pq_dir = <<>>
    /\ meta_pc = "idle"
    /\ metadata = <<>>
    /\ bitboard_sums = <<>>
    /\ partitions = <<>>
    /\ fb_pc = "idle"
    /\ sorted_partitions = <<>>
    /\ fb_i = 0
    /\ best_lcs_length = IntV(0)
    /\ issued = <<>>
    /\ fb_result = Ok(0)

IdleMatch ==
    /\ storage = [present |-> FALSE, rows |-> <<>>]
    /\ positions = <<>>
    /\ match = MatchUnset
    /\ exact_match = FALSE
    /\ fm_pc = "idle"
    /\ fm_result = Ok(0)
    /\ str_pc = "idle"
    /\ str_result = Ok(NoneV)
    /\ df_pc = "idle"
    /\ df_result = Ok(NoneV)

IdleTimeout ==
    /\ timeout = 0
    /\ func_work = 0
    /\ func_fails = FALSE
    /\ func_done = 0
    /\ clock = 0
    /\ timer = "unset"
    /\ printed = FALSE
    /\ rt_pc = "idle"
    /\ rt_value = NoneV

IdlePosition ==
    /\ pos_bitboards = <<>>
    /\ pos_move_history = <<>>
    /\ pos_white_turn = TRUE
    /\ pos_move_number = 0
    /\ pos_move_notation = "Game Start"
    /\ pos_final_move = FALSE
    /\ pos_source = <<>>
    /\ pos_board = NoneV
    /\ pos_pc = "idle"

IdleParser ==
    /\ gp_game = [first_turn |-> TRUE, moves |-> <<>>]
    /\ gp_user_submitted = TRUE
    /\ gp_board_turn = TRUE
    /\ gp_move_number = 0
    /\ gp_next = 0
    /\ gp_positions = <<>>
    /\ gp_pc = "idle"

IdleNavigator ==
    /\ nav_parser1 = 1
    /\ nav_parser2 = <<>>
    /\ nav_indices = <<>>
    /\ nav_is_parser1 = TRUE
    /\ nav_index = 0
    /\ nav_buttons = [b \in Buttons |-> "normal"]
    /\ nav_event = [handler |-> "__init__", via |-> "none", from |-> 0,
                    err |-> "none"]
    /\ nav_pc = "idle"

IdleArchive ==
    /\ am_file = <<>>
    /\ am_read = 0
    /\ am_game = <<>>
    /\ am_dataframes = <<>>
    /\ am_last = "none"
    /\ am_pc = "idle"

---------------------------------------------------------------------------
(* SpecLcs: optimized_lcs applied to every pair of input sequences.         *)

InitLcs ==
    /\ nep50 \in BOOLEAN
    /\ short_seq \in LcsInputs
    /\ long_seq \in LcsInputs
    /\ lcs_pc = "call"
    /\ lcs_result = Ok(0)
    /\ IdleSearch
    /\ IdleMatch
    /\ IdleTimeout
    /\ IdleParser
    /\ IdleNavigator
    /\ IdleArchive
    /\ IdlePosition

CallOptimizedLcs ==
    /\ lcs_pc = "call"
    /\ lcs_result' = optimized_lcs(short_seq, long_seq, nep50)
    /\ lcs_pc' = "done"
    /\ UNCHANGED <<navVars, archiveVars, parserVars, positionVars, timeoutVars, nep50, short_seq, long_seq, metaVars, searchVars, matchVars>>

NextLcs == CallOptimizedLcs

SpecLcs == InitLcs /\ [][NextLcs]_vars

---------------------------------------------------------------------------
(* SpecSearch: a storage directory, the Utility that lists it and a Matcher *)
(* built on its partitions.                                                 *)

InitSearch ==
    /\ nep50 \in BOOLEAN
    /\ short_seq = <<>>
    /\ long_seq = <<>>
    /\ lcs_pc = "idle"
    /\ lcs_result = Ok(0)
    /\ pq_dir \in Listings
    /\ meta_pc = "call"
    /\ metadata = <<>>
    /\ bitboard_sums \in Queries
    /\ partitions = PartitionsOf(pq_dir)
    /\ fb_pc = "start"
    /\ sorted_partitions = <<>>
    /\ fb_i = 0
    /\ best_lcs_length = IntV(0)
    /\ issued = <<>>
    /\ fb_result = Ok(0)
    /\ IdleMatch
    /\ IdleTimeout
    /\ IdleParser
    /\ IdleNavigator
    /\ IdleArchive
    /\ IdlePosition

GetPartitionMetadata ==
    /\ meta_pc = "call"
    /\ metadata' = get_partition_metadata(pq_dir)
    /\ meta_pc' = "done"
    /\ UNCHANGED <<navVars, archiveVars, parserVars, positionVars, timeoutVars, lcsVars, pq_dir, searchVars, matchVars>>

\* a direct call of process_partition on one of the partitions
CallProcessPartition ==
    /\ fb_pc = "start"
    /\ \E k \in DOMAIN partitions :
          /\ fb_result' = process_partition(MatcherSelf(bitboard_sums, partitions),
                                            partitions[k], nep50)
          /\ fb_i' = k
    /\ fb_pc' = "pp_done"
    /\ UNCHANGED <<navVars, archiveVars, parserVars, positionVars, timeoutVars, matchVars, lcsVars, metaVars, bitboard_sums, partitions,
                   sorted_partitions, best_lcs_length, issued>>

\* find_best_lcs, lines 46-47, and the first test of the for loop
FindBestStart ==
    /\ fb_pc = "start"
    /\ sorted_partitions' = SortedPartitions(partitions)
    /\ best_lcs_length' = IntV(0)
    /\ fb_i' = 1
    /\ fb_pc' = IF Len(partitions) = 0 THEN "compute" ELSE "loop"
    /\ UNCHANGED <<navVars, archiveVars, parserVars, positionVars, timeoutVars, matchVars, lcsVars, metaVars, bitboard_sums, partitions, issued, fb_result>>

\* lines 49-54: one iteration of the for loop, and the loop's next test
FindBestIterate ==
    /\ fb_pc = "loop"
    /\ LET partition  == sorted_partitions[fb_i]
           lcs_length == DelayedV(fb_i)
           newbest    == PyMax(best_lcs_length, lcs_length)
           stop       == IF newbest.err = "none"
                         THEN PyGe(newbest.val, partition.total_ply)
                         ELSE Raise(newbest.err)
       IN  /\ issued' = Append(issued, [key  |-> partition.total_ply,
                                        best |-> best_lcs_length])
           /\ IF stop.err # "none"
              THEN /\ fb_pc' = "done"
                   /\ fb_result' = Raise(stop.err)
                   /\ best_lcs_length' = IF newbest.err = "none" THEN newbest.val
                                         ELSE best_lcs_length
                   /\ UNCHANGED fb_i
              ELSE /\ best_lcs_length' = newbest.val
                   /\ fb_pc' = IF stop.val \/ fb_i = Len(sorted_partitions)
                               THEN "compute" ELSE "loop"
                   /\ fb_i' = IF stop.val \/ fb_i = Len(sorted_partitions)
                              THEN fb_i ELSE fb_i + 1
                   /\ UNCHANGED fb_result
    /\ UNCHANGED <<navVars, archiveVars, parserVars, positionVars, timeoutVars, matchVars, lcsVars, metaVars, bitboard_sums, partitions, sorted_partitions>>

\* lines 56-58
FindBestCompute ==
    /\ fb_pc = "compute"
    /\ fb_result' = DaskCompute(MatcherSelf(bitboard_sums, partitions),
                                sorted_partitions, best_lcs_length, nep50)
    /\ fb_pc' = "done"
    /\ UNCHANGED <<navVars, archiveVars, parserVars, positionVars, timeoutVars, matchVars, lcsVars, metaVars, bitboard_sums, partitions, sorted_partitions,
                   fb_i, best_lcs_length, issued>>

NextSearch ==
    \/ GetPartitionMetadata
    \/ CallProcessPartition
    \/ FindBestStart
    \/ FindBestIterate
    \/ FindBestCompute

SpecSearch == InitSearch /\ [][NextSearch]_vars

---------------------------------------------------------------------------
(* SpecMatch: a Matcher of Matcher.py, built on a storage (or none) and a   *)
(* submitted game, runs find_match.                                         *)

\* lines 38-46: Matcher.__init__
InitMatch ==
    /\ IdleLcs
    /\ IdleSearch
    /\ IdleTimeout
    /\ IdleParser
    /\ IdleNavigator
    /\ IdleArchive
    /\ IdlePosition
    /\ storage \in Storages
    /\ positions \in {GamePositions(pgn) : pgn \in GameNames}
    /\ match = MatchUnset
    /\ exact_match = FALSE
    /\ fm_pc = "call"
    /\ fm_result = Ok(0)
    /\ str_pc = "call"
    /\ str_result = Ok(NoneV)
    /\ df_pc = "call"
    /\ df_result = Ok(NoneV)

FindMatch ==
    /\ fm_pc = "call"
    /\ LET r == find_match([storage |-> storage, positions |-> positions,
                            match |-> match, exact_match |-> exact_match])
       IN  /\ match' = r.match
           /\ exact_match' = r.exact_match
           /\ fm_result' = IF r.err = "none" THEN Ok(0) ELSE Raise(r.err)
    /\ fm_pc' = "done"
    /\ UNCHANGED <<navVars, archiveVars, parserVars, positionVars, timeoutVars, lcsVars, metaVars, searchVars, storage, positions,
                   str_pc, str_result, df_pc, df_result>>

\* str(matcher): Matcher.__str__, lines 146-166
Str ==
    /\ str_pc = "call"
    /\ str_result' = Matcher__str__([positions |-> positions, match |-> match])
    /\ str_pc' = "done"
    /\ UNCHANGED <<navVars, archiveVars, parserVars, positionVars, timeoutVars, lcsVars, metaVars, searchVars, storage, positions, match,
                   exact_match, fm_pc, fm_result, df_pc, df_result>>

\* Utility.create_dataframe(parser) on the Parser of the submitted game
CreateDataframe ==
    /\ df_pc = "call"
    /\ df_result' = create_dataframe(ParserSelf(positions))
    /\ df_pc' = "done"
    /\ UNCHANGED <<navVars, archiveVars, parserVars, positionVars, timeoutVars, lcsVars, metaVars, searchVars, storage, positions, match,
                   exact_match, fm_pc, fm_result, str_pc, str_result>>

NextMatch ==
    \/ FindMatch
    \/ Str
    \/ CreateDataframe

SpecMatch == InitMatch /\ [][NextMatch]_vars

---------------------------------------------------------------------------
(* SpecTimeout: run_with_timeout(func, timeout), Application.py lines 15-25. *)
(* The main thread runs func step by step; the Timer thread waits for       *)
(* timeout * 60 seconds and then runs stop_program, unless it is cancelled. *)

InitTimeout ==
    /\ IdlePosition
    /\ IdleParser
    /\ IdleNavigator
    /\ IdleArchive
    /\ IdleLcs
    /\ IdleSearch
    /\ IdleMatch
    /\ timeout \in 1..MaxTimeout
    /\ func_work \in 0..MaxWork
    /\ func_fails \in BOOLEAN
    /\ func_done = 0
    /\ clock = 0
    /\ timer = "unset"
    /\ printed = FALSE
    /\ rt_pc = "call"
    /\ rt_value = NoneV

\* a Timer never stopped
NeverCancelled(t) == t

\* line 25: timer.cancel() stops a Timer that is still in its waiting stage
\* and does nothing to one that has left it
cancel(t) == IF t = "waiting" THEN "cancelled" ELSE t

\* lines 20-22: the Timer is created and started, func is entered
RunWithTimeout ==
    /\ rt_pc = "call"
    /\ timer' = "waiting"
    /\ rt_pc' = "running"
    /\ UNCHANGED <<navVars, archiveVars, parserVars, positionVars, lcsVars, metaVars, searchVars, matchVars, timeout, func_work,
                   func_fails, func_done, clock, printed, rt_value>>

\* a minute passes while func runs
Tick ==
    /\ rt_pc = "running"
    /\ clock < timeout * 60
    /\ clock' = clock + 60
    /\ UNCHANGED <<navVars, archiveVars, parserVars, positionVars, lcsVars, metaVars, searchVars, matchVars, timeout, func_work,
                   func_fails, func_done, timer, printed, rt_pc, rt_value>>

\* line 23: func() takes one more step
FuncStep ==
    /\ rt_pc = "running"
    /\ func_done < func_work
    /\ func_done' = func_done + 1
    /\ UNCHANGED <<navVars, archiveVars, parserVars, positionVars, lcsVars, metaVars, searchVars, matchVars, timeout, func_work,
                   func_fails, clock, timer, printed, rt_pc, rt_value>>

\* lines 20-21: the Timer thread, its interval over, finds that it was not
\* cancelled and leaves its waiting stage; it has yet to call stop_program
TimerFires ==
    /\ timer = "waiting"
    /\ clock >= timeout * 60
    /\ timer' = "fired"
    /\ UNCHANGED <<navVars, archiveVars, parserVars, positionVars, lcsVars,
                   metaVars, searchVars, matchVars, timeout, func_work,
                   func_fails, func_done, clock, printed, rt_pc, rt_value>>

\* lines 16-18: the Timer thread runs stop_program.
\* sys.exit(0) raises SystemExit in the Timer thread, which ends that thread
\* and no other: the main thread goes on running func.
StopProgram ==
    /\ timer = "fired"
    /\ printed' = TRUE
    /\ timer' = "exited"
    /\ UNCHANGED <<navVars, archiveVars, parserVars, positionVars, lcsVars, metaVars, searchVars, matchVars, timeout, func_work,
                   func_fails, func_done, clock, rt_pc, rt_value>>

\* lines 23-25: func ends; finally: timer.cancel(), which stops a Timer that
\* is still waiting.  The call hands back None, or the exception of func.
FuncEnd ==
    /\ rt_pc = "running"
    /\ func_done = func_work
    /\ timer' = cancel(timer)
    /\ rt_pc' = IF func_fails THEN "raised" ELSE "returned"
    /\ rt_value' = IF func_fails THEN "Exception" ELSE NoneV
    /\ UNCHANGED <<navVars, archiveVars, parserVars, positionVars, lcsVars, metaVars, searchVars, matchVars, timeout, func_work,
                   func_fails, func_done, clock, printed>>

NextTimeout ==
    \/ RunWithTimeout
    \/ Tick
    \/ FuncStep
    \/ TimerFires
    \/ StopProgram
    \/ FuncEnd

SpecTimeout == InitTimeout /\ [][NextTimeout]_vars

---------------------------------------------------------------------------
(* SpecPosition: a Position, made by Position() or by from_chess_board, and *)
(* the moves applied to it.  apply_move is called with a piece that stands  *)
(* on the origin and a destination other than the origin.                   *)

\* lines 38-57: Position()
InitPosition ==
    /\ IdleLcs
    /\ IdleSearch
    /\ IdleMatch
    /\ IdleTimeout
    /\ IdleParser
    /\ IdleNavigator
    /\ IdleArchive
    /\ pos_bitboards = InitBitboards
    /\ pos_move_history = <<>>
    /\ pos_white_turn = TRUE
    /\ pos_move_number = 0
    /\ pos_move_notation = "Game Start"
    /\ pos_final_move = FALSE
    /\ pos_source = <<>>
    /\ pos_board = NoneV
    /\ pos_pc = "new"

\* Position.from_chess_board(board): the Position it returns
FromChessBoard ==
    /\ pos_pc = "new"
    /\ pos_move_history = <<>>
    /\ \E board \in Boards :
          LET position == from_chess_board(board)
          IN  /\ pos_bitboards' = position.bitboards
              /\ pos_white_turn' = position.white_turn
              /\ pos_source' = <<board>>
    \* line 117: the other attributes are those of a new Position()
    /\ pos_move_number' = 0
    /\ pos_move_notation' = "Game Start"
    /\ pos_final_move' = FALSE
    /\ pos_pc' = "built"
    /\ UNCHANGED <<navVars, archiveVars, parserVars, lcsVars, metaVars, searchVars, matchVars, timeoutVars,
                   pos_move_history, pos_board>>

ApplyMove ==
    /\ Len(pos_move_history) < MaxMoves
    /\ pos_pc \in {"new", "built"}
    /\ \E piece \in Pieces :
       \E origin \in pos_bitboards[piece] \cap MoveSquares :
       \E destination \in MoveSquares \ {origin} :
          LET r == apply_move([bitboards    |-> pos_bitboards,
                               move_history |-> pos_move_history,
                               white_turn   |-> pos_white_turn],
                              <<piece, origin, destination>>)
          IN  /\ pos_bitboards' = r.bitboards
              /\ pos_move_history' = r.move_history
              /\ pos_white_turn' = r.white_turn
    /\ UNCHANGED <<navVars, archiveVars, parserVars, lcsVars, metaVars, searchVars, matchVars, timeoutVars,
                   pos_move_number, pos_move_notation, pos_final_move,
                   pos_source, pos_board, pos_pc>>

\* lines 176-191: get_board() of the Position
GetBoard ==
    /\ pos_pc \in {"new", "built"}
    /\ pos_board' = get_board([bitboards |-> pos_bitboards])
    /\ pos_pc' = "shown"
    /\ UNCHANGED <<navVars, archiveVars, parserVars, lcsVars, metaVars, searchVars, matchVars, timeoutVars,
                   pos_bitboards, pos_move_history, pos_white_turn,
                   pos_move_number, pos_move_notation, pos_final_move,
                   pos_source>>

NextPosition ==
    \/ FromChessBoard
    \/ ApplyMove
    \/ GetBoard

SpecPosition == InitPosition /\ [][NextPosition]_vars

---------------------------------------------------------------------------
(* SpecParser: Parser.get_positions(user_submitted) on a parsed game.        *)

InitParser ==
    /\ IdleLcs
    /\ IdleSearch
    /\ IdleMatch
    /\ IdleTimeout
    /\ IdlePosition
    /\ IdleNavigator
    /\ IdleArchive
    /\ gp_game \in Games
    /\ gp_user_submitted \in BOOLEAN
    /\ gp_board_turn = TRUE
    /\ gp_move_number = 0
    /\ gp_next = 0
    /\ gp_positions = <<>>
    /\ gp_pc = "call"

\* lines 110-114, up to the first test of the for loop
GetPositionsStart ==
    /\ gp_pc = "call"
    /\ gp_board_turn' = gp_game.first_turn
    /\ gp_positions' = <<PositionOfBoard(gp_game.first_turn)>>
    /\ gp_move_number' = 1
    /\ gp_next' = 0
    /\ gp_pc' = "loop"
    /\ UNCHANGED <<navVars, archiveVars, lcsVars, metaVars, searchVars, matchVars, timeoutVars,
                   positionVars, gp_game, gp_user_submitted>>

\* lines 115-126: one mainline move; board.push(move) passes the turn
GetPositionsIterate ==
    /\ gp_pc = "loop"
    /\ gp_next < Len(gp_game.moves)
    /\ LET move_notation == gp_game.moves[gp_next + 1]
           turn          == ~gp_board_turn
       IN  /\ gp_board_turn' = turn
           /\ gp_positions' =
                  Append(gp_positions,
                         PositionAfter(turn, gp_move_number, move_notation,
                                       gp_user_submitted))
           /\ gp_move_number' = NextMoveNumber(gp_move_number, turn)
    /\ gp_next' = gp_next + 1
    /\ UNCHANGED <<navVars, archiveVars, lcsVars, metaVars, searchVars, matchVars, timeoutVars,
                   positionVars, gp_game, gp_user_submitted, gp_pc>>

\* lines 128-129: the loop is over
GetPositionsReturn ==
    /\ gp_pc = "loop"
    /\ gp_next = Len(gp_game.moves)
    /\ gp_positions' = [gp_positions EXCEPT ![Len(gp_positions)].final_move = TRUE]
    /\ gp_pc' = "done"
    /\ UNCHANGED <<navVars, archiveVars, lcsVars, metaVars, searchVars, matchVars, timeoutVars,
                   positionVars, gp_game, gp_user_submitted, gp_board_turn,
                   gp_move_number, gp_next>>

NextParser ==
    \/ GetPositionsStart
    \/ GetPositionsIterate
    \/ GetPositionsReturn

SpecParser == InitParser /\ [][NextParser]_vars

---------------------------------------------------------------------------
(* SpecNavigator: a Navigator on one game, or on two games with or without  *)
(* the indices of their matching runs, and the callbacks of its main loop.  *)

NavSelf ==
    [parser1    |-> nav_parser1,
     parser2    |-> nav_parser2,
     indices    |-> nav_indices,
     is_parser1 |-> nav_is_parser1,
     index      |-> nav_index,
     buttons    |-> nav_buttons]

\* the object is left as `self`
NavBecomes(self) ==
    /\ nav_is_parser1' = self.is_parser1
    /\ nav_index' = self.index
    /\ nav_buttons' = self.buttons
    /\ UNCHANGED <<nav_parser1, nav_parser2, nav_indices>>

\* lines 51-81
InitNavigator ==
    /\ IdleLcs
    /\ IdleSearch
    /\ IdleMatch
    /\ IdleTimeout
    /\ IdlePosition
    /\ IdleParser
    /\ IdleArchive
    /\ nav_parser1 \in 1..MaxPositions
    /\ nav_parser2 \in {<<>>} \cup {<<n>> : n \in 1..MaxPositions}
    /\ nav_indices \in
          IF nav_parser2 = <<>> THEN {<<>>}
          ELSE {<<>>} \cup {<<r1, r2>> : r1 \in Ranges(nav_parser1),
                                        r2 \in Ranges(nav_parser2[1])}
    /\ nav_is_parser1 = TRUE
    /\ nav_index = 0
    /\ nav_buttons = [b \in Buttons |-> "normal"]
    /\ nav_event = [handler |-> "__init__", via |-> "none", from |-> 0,
                    err |-> "none"]
    /\ nav_pc = "constructed"

\* lines 239-250: an exception of display_position leaves __call__ before
\* the main loop starts
Call ==
    /\ nav_pc = "constructed"
    /\ LET r == display_position(NavSelf)
       IN  /\ NavBecomes(r.self)
           /\ nav_event' = [handler |-> "__call__", via |-> "none",
                            from |-> nav_index, err |-> r.err]
           /\ nav_pc' = IF r.err = "none" THEN "mainloop" ELSE "crashed"
    /\ UNCHANGED <<archiveVars, lcsVars, metaVars, searchVars, matchVars,
                   timeoutVars, positionVars, parserVars>>

\* lines 241-247: a bound key is pressed; Tk calls the handler with the
\* event, reports an exception of the callback and goes on
KeyPress ==
    /\ nav_pc = "mainloop"
    /\ \E key \in Keys :
          LET r == CallHandlerWithEvent(Binding[key], NavSelf)
          IN  /\ NavBecomes(r.self)
              /\ nav_event' = [handler |-> Binding[key], via |-> key,
                               from |-> nav_index, err |-> r.err]
    /\ UNCHANGED <<nav_pc, archiveVars, lcsVars, metaVars, searchVars,
                   matchVars, timeoutVars, positionVars, parserVars>>

\* lines 73-81: a button that is not disabled is clicked; Tk calls its
\* command with no argument
ButtonClick ==
    /\ nav_pc = "mainloop"
    /\ \E b \in Buttons :
          /\ nav_buttons[b] = "normal"
          /\ LET r == CallHandler(Command[b], NavSelf)
             IN  /\ NavBecomes(r.self)
                 /\ nav_event' = [handler |-> Command[b], via |-> b,
                                  from |-> nav_index, err |-> r.err]
    /\ UNCHANGED <<nav_pc, archiveVars, lcsVars, metaVars, searchVars,
                   matchVars, timeoutVars, positionVars, parserVars>>

NextNavigator ==
    \/ Call
    \/ KeyPress
    \/ ButtonClick

SpecNavigator == InitNavigator /\ [][NextNavigator]_vars

---------------------------------------------------------------------------
(* SpecArchive: Utility.archive_multipgn on a PGN file, Utilities.py lines  *)
(* 198-226.  The one thread that runs it takes its next step whenever it     *)
(* has one.                                                                 *)

InitArchive ==
    /\ IdleLcs
    /\ IdleSearch
    /\ IdleMatch
    /\ IdleTimeout
    /\ IdlePosition
    /\ IdleParser
    /\ IdleNavigator
    /\ am_file \in PgnFiles
    /\ am_read = 0
    /\ am_game = <<>>
    /\ am_dataframes = <<>>
    /\ am_last = "none"
    /\ am_pc = "call"

\* lines 207-211
ArchiveOpen ==
    /\ am_pc = "call"
    /\ LET r == read_game(am_file, am_read)
       IN  /\ am_game' = r.game
           /\ am_read' = r.read
    /\ am_dataframes' = <<>>
    /\ am_pc' = "while"
    /\ UNCHANGED <<navVars, lcsVars, metaVars, searchVars, matchVars,
                   timeoutVars, positionVars, parserVars, am_file, am_last>>

\* line 213: while game
ArchiveWhile ==
    /\ am_pc = "while"
    /\ am_pc' = IF am_game # <<>> THEN "try" ELSE "after"
    /\ UNCHANGED <<navVars, lcsVars, metaVars, searchVars, matchVars,
                   timeoutVars, positionVars, parserVars, am_file, am_read,
                   am_game, am_dataframes, am_last>>

\* lines 215-217: the game is processed and the next one read
ArchiveTry ==
    /\ am_pc = "try"
    /\ ~am_file[am_game[1]].illegal
    /\ am_dataframes' =
          Append(am_dataframes, to_parquet(ParserSelf(am_file[am_game[1]])))
    /\ LET r == read_game(am_file, am_read)
       IN  /\ am_game' = r.game
           /\ am_read' = r.read
    /\ am_last' = "appended"
    /\ am_pc' = "while"
    /\ UNCHANGED <<navVars, lcsVars, metaVars, searchVars, matchVars,
                   timeoutVars, positionVars, parserVars, am_file>>

\* lines 216, 219-220: processing the game raises chess.IllegalMoveError;
\* the handler prints and the loop goes on
ArchiveExcept ==
    /\ am_pc = "try"
    /\ am_file[am_game[1]].illegal
    /\ am_last' = "skipped"
    /\ am_pc' = "while"
    /\ UNCHANGED <<navVars, lcsVars, metaVars, searchVars, matchVars,
                   timeoutVars, positionVars, parserVars, am_file, am_read,
                   am_game, am_dataframes>>

\* lines 222-226: dd.concat meets the None entries that to_parquet left in
\* dataframes and, depending on their number and on the library, raises or
\* hands one of them on
ArchiveConcat ==
    /\ am_pc = "after"
    /\ am_pc' \in IF \E k \in DOMAIN am_dataframes : am_dataframes[k] = <<>>
                  THEN {"completed", "raised"}
                  ELSE {"completed"}
    /\ UNCHANGED <<navVars, lcsVars, metaVars, searchVars, matchVars,
                   timeoutVars, positionVars, parserVars, am_file, am_read,
                   am_game, am_dataframes, am_last>>

NextArchive ==
    \/ ArchiveOpen
    \/ ArchiveWhile
    \/ ArchiveTry
    \/ ArchiveExcept
    \/ ArchiveConcat

SpecArchive == InitArchive /\ [][NextArchive]_vars /\ WF_vars(NextArchive)

---------------------------------------------------------------------------
(* Reference definitions of the claims.                                     *)

\* one row of the classic LCS table: cur holds the cells of columns 0..j-1
RECURSIVE ClassicCells(_, _, _, _, _)
ClassicCells(x, b, prev, cur, j) ==
    IF j > Len(b) THEN cur
    ELSE ClassicCells(x, b, prev,
                      Append(cur, IF x = b[j] THEN prev[j] + 1
                                  ELSE Max2(prev[j + 1], cur[j])),
                      j + 1)

RECURSIVE ClassicRows(_, _, _, _)
ClassicRows(a, b, i, prev) ==
    IF i > Len(a) THEN prev[Len(b) + 1]
    ELSE ClassicRows(a, b, i + 1, ClassicCells(a[i], b, prev, <<0>>, 1))

\* the length of the longest common subsequence of a and b, cell by cell
ClassicLcs(a, b) == ClassicRows(a, b, 1, [j \in 1..(Len(b) + 1) |-> 0])

\* the best length of a search that evaluates every partition
ExhaustiveBest(query, parts) ==
    MaxOfSet({0} \cup {ClassicLcs(query, parts[k].sequences) : k \in DOMAIN parts})

---------------------------------------------------------------------------
(* Claims.                                                                  *)

\* C1: optimized_lcs(short, long) returns the length of the longest common
\* subsequence of short and long, as the classic cell-by-cell dynamic
\* programme computes it (4 for [1,2,3,4,5] against [1,2,9,4,5]).
C1_EqualsClassicLcs ==
    lcs_pc = "done" => lcs_result = Ok(ClassicLcs(short_seq, long_seq))

\* C2: optimized_lcs(s, s) returns len(s), for every sequence s.
C2_SelfLcsIsLength ==
    (lcs_pc = "done" /\ short_seq = long_seq) => lcs_result = Ok(Len(short_seq))

\* C3: for sequences that share no symbol (an empty short sequence included)
\* optimized_lcs raises nothing and returns 0.
C3_DisjointIsZero ==
    (lcs_pc = "done" /\ SeqToSet(short_seq) \cap SeqToSet(long_seq) = {})
        => lcs_result = Ok(0)

\* C4: optimized_lcs(a, b) and optimized_lcs(b, a) return the same length:
\* when the call on (a, b) returns a length, the call on (b, a) returns it too.
C4_Symmetric ==
    (lcs_pc = "done" /\ lcs_result.err = "none")
        => optimized_lcs(long_seq, short_seq, nep50) = lcs_result

\* C5: find_best_lcs, with its early exit, returns the best length of a
\* search that evaluates every partition and takes the maximum.
C5_PrunedEqualsExhaustive ==
    fb_pc = "done" => fb_result = Ok(ExhaustiveBest(bitboard_sums, partitions))

\* C6: a search runs to its end, and it issues no work for a partition whose
\* key is strictly less than the best length found before that partition.
C6_NoWorkBelowBest ==
    fb_pc = "done" =>
        /\ fb_result.err = "none"
        /\ \A k \in DOMAIN issued :
              issued[k].best.t = "int" /\ issued[k].key >= issued[k].best.v

C8_PartitionBound ==
    fb_pc = "pp_done" =>
        /\ fb_result.err = "none"
        /\ fb_result.val <= Min2(Len(bitboard_sums), partitions[fb_i].total_ply)

\* the rows of the storage whose id is the identifier of the submitted game
SameIdRows == {k \in DOMAIN storage.rows : storage.rows[k].id = StoredId(positions)}

\* C9: when the identifier of the query is the identifier of a stored game,
\* find_match ends with an exact-match result that names the stored game and
\* whose length is the full length of its sequence.
C9_ExactMatch ==
    (fm_pc = "done" /\ storage.present /\ SameIdRows # {}) =>
        /\ fm_result.err = "none"
        /\ exact_match
        /\ match.set
        /\ match.parser \in {storage.rows[k].pgn : k \in SameIdRows}
        /\ match.len = Len(positions)

\* what a caller reads from the match tuple and the exact_match flag
Outcome ==
    IF exact_match THEN "ExactMatch"
    ELSE IF match.set /\ match.len > 0 THEN "Matched"
    ELSE IF match.set /\ match.parser # NoneV THEN "NoMatch"
    ELSE "NoCorpus"

\* C10: every search ends, without an exception, in one of the outcomes
\* ExactMatch, Matched, NoMatch, NoCorpus, which the caller tells apart from
\* the match tuple and the exact_match flag; the outcome is NoCorpus exactly
\* when there is no storage.
C10_FourOutcomes ==
    fm_pc = "done" =>
        /\ fm_result.err = "none"
        /\ match.set
        /\ (Outcome = "NoCorpus") <=> ~storage.present

\* a stored row holds one of the positions of the submitted game
SharesPosition ==
    \E k \in DOMAIN storage.rows : \E i \in DOMAIN positions :
        get_bitboard_integers(positions[i]) = storage.rows[k].bitboards

\* C11: with a storage in which no game shares a position with the submitted
\* game (a storage of zero games included), find_match ends without raising
\* and the match is (None, None, 0).
C11_NoMatchIsNotAnError ==
    (fm_pc = "done" /\ storage.present /\ ~SharesPosition) =>
        /\ fm_result.err = "none"
        /\ match = set_match(NoneV, NoneV, 0)

\* the submitted game as the sequence of its per-ply bitboard lists
QuerySeq == [i \in DOMAIN positions |-> get_bitboard_integers(positions[i])]

\* the stored game of an id: the bitboard lists of its rows, in ply order
StoredSeq(id) ==
    LET g == SelectSeq(storage.rows, LAMBDA r : r.id = id)
    IN  [j \in DOMAIN g |-> g[j].bitboards]

\* the number of consecutive equal positions from q[i] and g[j] onwards
RunAt(q, g, i, j) ==
    LET limit == Min2(Len(q) - i + 1, Len(g) - j + 1)
    IN  CHOOSE n \in 0..limit :
            /\ \A t \in 0..(n - 1) : q[i + t] = g[j + t]
            /\ n = limit \/ q[i + n] # g[j + n]

\* the longest contiguous run of positions that q and g share
LongestRun(q, g) ==
    MaxOfSet({0} \cup {RunAt(q, g, i, j) : i \in DOMAIN q, j \in DOMAIN g})

StoredIds == {storage.rows[k].id : k \in DOMAIN storage.rows}

BestRun == MaxOfSet({0} \cup {LongestRun(QuerySeq, StoredSeq(id)) : id \in StoredIds})

\* C12: for a storage of one or more games none of which has the id of the
\* submitted game, the length find_match records is the longest contiguous
\* run of positions the submitted game shares with a stored game, and the
\* recorded game is one that has a run of that length.
C12_LongestSharedRun ==
    (fm_pc = "done" /\ storage.present /\ storage.rows # <<>> /\ SameIdRows = {}) =>
        /\ fm_result.err = "none"
        /\ match.set
        /\ match.len = BestRun
        /\ \E k \in DOMAIN storage.rows :
              /\ storage.rows[k].pgn = match.parser
              /\ LongestRun(QuerySeq, StoredSeq(storage.rows[k].id)) = BestRun

\* a range <<a, b>> of indices that spans n positions
Spans(range, n) == range[2] - range[1] + 1 = n

\* C13: a search whose submitted game shares a position with a stored game of
\* another id records a match of length L > 0; the match then carries the
\* start and end index of the run in the submitted and in the stored game,
\* each range spanning L positions, and Matcher.__str__ renders it without
\* an exception.
C13_RangesSpanLength ==
    (fm_pc = "done" /\ storage.present /\ SameIdRows = {} /\ BestRun > 0) =>
        /\ match.set /\ match.len > 0
        /\ match.indices # NoneV
        /\ Spans(match.indices[1], match.len)
        /\ Spans(match.indices[2], match.len)
        /\ Matcher__str__([positions |-> positions, match |-> match]).err = "none"

\* the search run once more on the Matcher as the first search left it
SearchAgain ==
    find_match([storage |-> storage, positions |-> positions,
                match |-> match, exact_match |-> exact_match])

\* the storages that hold the games of the storage in another order
Reordered ==
    {s \in Storages : /\ s.present = storage.present
                      /\ SeqToSet(s.rows) = SeqToSet(storage.rows)}

\* C14: a search on a storage ends with a final match; the search repeated
\* gives the same match, and so does the search on the same games taken in
\* any other order.
C14_SameMatchEveryTime ==
    (fm_pc = "done" /\ storage.present) =>
        /\ fm_result.err = "none"
        /\ match.set
        /\ SearchAgain.err = "none"
        /\ SearchAgain.match = match
        /\ \A s \in Reordered :
              find_match([storage |-> s, positions |-> positions,
                          match |-> MatchUnset, exact_match |-> FALSE]).match = match

\* the stored games in the order the search processes them
ProcessingOrder == UniqueIds(storage.rows, 1, <<>>)

\* the pgn of the first game of the processing order whose longest shared run
\* is the best one
EarliestBest ==
    LET ids == ProcessingOrder
        k0  == CHOOSE k \in DOMAIN ids :
                  /\ LongestRun(QuerySeq, StoredSeq(ids[k])) = BestRun
                  /\ \A a \in 1..(k - 1) :
                        LongestRun(QuerySeq, StoredSeq(ids[a])) < BestRun
    IN  SelectSeq(storage.rows, LAMBDA r : r.id = ids[k0])[1].pgn

\* C15: the best result is replaced only by a strictly longer one, so the game
\* the search reports is the first of the processing order that reaches the
\* best length: of two games that tie, the earlier one.
C15_TiesKeepEarlier ==
    (fm_pc = "done" /\ storage.present /\ storage.rows # <<>> /\ SameIdRows = {}) =>
        /\ fm_result.err = "none"
        /\ match.set
        /\ match.parser = EarliestBest

\* what evaluating partition k gives
Evaluate(k) ==
    process_partition(MatcherSelf(bitboard_sums, partitions), partitions[k], nep50)

FailingPartitions == {k \in DOMAIN partitions : Evaluate(k).err # "none"}

\* the best length over the partitions whose evaluation does not fail
BestOfRemaining ==
    MaxOfSet({0} \cup {Evaluate(k).val : k \in DOMAIN partitions \ FailingPartitions})

\* C16: when the evaluation of a partition fails, find_best_lcs still returns,
\* and what it returns is the best length over the remaining partitions.
C16_FailureSkipsPartition ==
    (fb_pc = "done" /\ FailingPartitions # {}) =>
        fb_result = Ok(BestOfRemaining)

\* C17: when the time bound has expired while func was running,
\* run_with_timeout hands its caller a result, the best found so far, and
\* not None or an exception.
C17_TimeoutReturnsBestSoFar ==
    (timer = "exited" /\ rt_pc \in {"returned", "raised"}) =>
        /\ rt_pc = "returned"
        /\ rt_value \in {IntV(n) : n \in 0..func_done}

\* the sum of the twelve masks of a position modulo 2^64
SignatureOf(position) ==
    BigV({b \in SumBits(position.bitboards, 0, 0) : b < w})

\* C18: the value stored per ply, the signature of the position, is the sum
\* of its twelve masks modulo 2^64, one unsigned 64-bit value, and computing
\* it raises no error.
C18_SignatureIsModularSum ==
    df_pc = "done" =>
        /\ df_result.err = "none"
        /\ Len(df_result.val) = Len(positions)
        /\ \A k \in DOMAIN positions :
              df_result.val[k].board_sum = SignatureOf(positions[k])

\* C19: generate_id(positions), as find_match calls it on the submitted game,
\* returns the sum of every bitboard of every position plus the number of
\* positions; the value is a function of the position sequence alone.
C19_IdIsSumPlusLength ==
    (fm_pc = "done" /\ storage.present) =>
        generate_id(positions) = Ok(BigV(StoredId(positions)))

\* the squares that stand in the masks of two piece classes
SharedSquares ==
    UNION {pos_bitboards[pq[1]] \cap pos_bitboards[pq[2]] :
              pq \in {x \in Pieces \X Pieces : x[1] # x[2]}}

\* C20: in the Position made by Position() or by from_chess_board, and after
\* every apply_move of a piece that stands on the origin to another square,
\* no square is set in more than one of the twelve masks.
C20_MasksDisjoint ==
    pos_pc \in {"new", "built", "shown"} => SharedSquares = {}

\* a move has just taken a piece: the mover stands on the destination, and
\* every move so far has taken one piece off a full board
C20_Witness ==
    /\ pos_move_history # <<>>
    /\ LET move == pos_move_history[Len(pos_move_history)]
       IN  /\ move[3] \in pos_bitboards[move[1]]
           /\ move[2] \notin pos_bitboards[move[1]]
    /\ Cardinality(UNION {pos_bitboards[p] : p \in Pieces})
          + Len(pos_move_history) = 32

\* C21: apply_move((piece, origin, destination)) with the piece on the origin
\* and not on the destination moves that square of the piece's mask from the
\* origin to the destination, clears the destination in every other mask and
\* changes no other bit; it appends the move to move_history and flips
\* white_turn; move_number, move_notation and final_move stay as they are.
C21_ApplyMoveEffect ==
    [][pos_move_history' # pos_move_history =>
          LET move        == pos_move_history'[Len(pos_move_history')]
              piece       == move[1]
              origin      == move[2]
              destination == move[3]
          IN  (origin \in pos_bitboards[piece]
                 /\ destination \notin pos_bitboards[piece]) =>
                /\ pos_bitboards'[piece] =
                       (pos_bitboards[piece] \ {origin}) \cup {destination}
                /\ \A q \in Pieces \ {piece} :
                       pos_bitboards'[q] = pos_bitboards[q] \ {destination}
                /\ pos_move_history' = Append(pos_move_history, move)
                /\ pos_white_turn' = ~pos_white_turn
                /\ pos_move_number' = pos_move_number
                /\ pos_move_notation' = pos_move_notation
                /\ pos_final_move' = pos_final_move]_vars

\* the first move of a Position() has taken a piece: the mover left its
\* origin for the destination, 31 squares are set, and it is Black's turn
C21_Witness ==
    /\ pos_pc = "new"
    /\ Len(pos_move_history) = 1
    /\ pos_move_history[1][3] \in pos_bitboards[pos_move_history[1][1]]
    /\ pos_move_history[1][2] \notin pos_bitboards[pos_move_history[1][1]]
    /\ Cardinality(UNION {pos_bitboards[p] : p \in Pieces}) = 31
    /\ ~pos_white_turn

\* C22: get_board(from_chess_board(board)) shows, at row 7 - square // 8 and
\* column square % 8, the symbol of the piece the board has on the square, and
\* a blank where the board has none.
C22_BoardRoundTrip ==
    (pos_pc = "shown" /\ pos_source # <<>> /\ pos_move_history = <<>>) =>
        \A square \in 0..63 :
            pos_board[7 - (square \div 8)][square % 8] =
                IF pos_source[1].piece_at[square] = "None" THEN " "
                ELSE PieceSymbols[convert_piece_symbol(pos_source[1].piece_at[square])]

\* the board of a Position built from a board with White's queen on d1 and
\* Black's king on e8, shown at row 7 column 3 and at row 0 column 4
C22_Witness ==
    /\ pos_pc = "shown"
    /\ pos_source # <<>>
    /\ pos_move_history = <<>>
    /\ pos_source[1].piece_at[3] = "Q"
    /\ pos_board[7][3] = "Q"
    /\ pos_board[0][4] = "k"

\* the number of positions is one more than the number of mainline moves, the
\* first has move_number 0, and final_move is True on the last and no other
PositionsShape ==
    /\ Len(gp_positions) = Len(gp_game.moves) + 1
    /\ gp_positions[1].move_number = 0
    /\ \A k \in 1..Len(gp_game.moves) :
          gp_positions[k + 1].move_notation = gp_game.moves[k]
    /\ \A i \in DOMAIN gp_positions :
          gp_positions[i].final_move <=> (i = Len(gp_positions))

\* C23 (as stated): get_positions returns m + 1 positions in ply order; the
\* first has move_number 0, ply k >= 1 has move_number ceil(k / 2), and
\* final_move is True on the last position only.
C23_MoveNumberIsCeilHalf ==
    gp_pc = "done" =>
        /\ PositionsShape
        /\ \A k \in 1..Len(gp_game.moves) :
              gp_positions[k + 1].move_number = (k + 1) \div 2

\* White is to move before ply j
WhiteMoves(j) == gp_game.first_turn <=> (j % 2 = 1)

\* C23 (amended): as above, but ply k has move_number 1 + the number of
\* White's plies among plies 2..k: ceil(k / 2) when White moves first,
\* floor(k / 2) + 1 when Black does.
C23_MoveNumberCountsWhitePlies ==
    gp_pc = "done" =>
        /\ PositionsShape
        /\ \A k \in 1..Len(gp_game.moves) :
              gp_positions[k + 1].move_number =
                  1 + Cardinality({j \in 2..k : WhiteMoves(j)})

\* a game of two or more plies in which Black moves first has been parsed
C23_Witness ==
    /\ gp_pc = "done"
    /\ ~gp_game.first_turn
    /\ Len(gp_positions) >= 3
    /\ gp_positions[3].move_number = 2


\* C24: after get_positions(user_submitted), every returned Position has
\* user_submitted equal to the argument, and its move_history is still the
\* empty list.
C24_UserSubmittedIsSet ==
    gp_pc = "done" =>
        \A i \in DOMAIN gp_positions :
            /\ gp_positions[i].user_submitted = gp_user_submitted
            /\ gp_positions[i].move_history = PyList(<<>>)


\* the last index of the game now shown
ActiveEnd == (IF nav_is_parser1 THEN nav_parser1 ELSE nav_parser2[1]) - 1

\* C25: in a Navigator with two games loaded, after any sequence of next,
\* previous, first, end and toggle_game operations from index 0, the index is
\* at least 0 and at most the last index of the active game.
C25_IndexWithinActiveGame ==
    nav_parser2 # <<>> => (0 <= nav_index /\ nav_index <= ActiveEnd)

\* toggle_game was called at an index beyond the end of the other game, and
\* the index is now the last index of that game
C25_Witness ==
    /\ nav_parser2 # <<>>
    /\ nav_event.handler = "toggle_game"
    /\ nav_event.err = "none"
    /\ nav_event.from > ActiveEnd
    /\ nav_index = ActiveEnd

\* C26: in a Navigator with no second game, no event of the main loop
\* (button, or key space, c, d) switches the active game away from parser1,
\* changes the index through indices, or raises an error.
C26_NoSecondGameControlsInert ==
    (nav_pc = "mainloop" /\ nav_parser2 = <<>>) =>
        /\ nav_is_parser1
        /\ nav_event.handler \in {"toggle_game", "set_convergence_position",
                                  "set_divergence_position"} =>
              (nav_event.err = "none" /\ nav_index = nav_event.from)
        /\ \A b \in {"con", "div", "toggle"} : nav_buttons[b] = "disabled"

\* C27: after every navigation operation that ends in display_position, the
\* first and previous buttons are disabled exactly when index = 0, and the
\* end and next buttons exactly when index is the last index of the active
\* game.
C27_ArrowsDisabledAtEdges ==
    nav_pc \in {"mainloop", "crashed"} =>
        /\ \A b \in {"f_arrow", "l_arrow"} :
              nav_buttons[b] = "disabled" <=> nav_index = 0
        /\ \A b \in {"e_arrow", "r_arrow"} :
              nav_buttons[b] = "disabled" <=> nav_index = ActiveEnd

\* the end of a game of two or more positions was reached by an operation
C27_Witness ==
    /\ nav_pc = "mainloop"
    /\ nav_event.handler \in {"set_end_position", "set_next_position",
                              "toggle_game"}
    /\ nav_event.err = "none"
    /\ nav_event.from # nav_index
    /\ nav_index = ActiveEnd
    /\ nav_index > 0
    /\ nav_buttons["e_arrow"] = "disabled"
    /\ nav_buttons["f_arrow"] = "normal"


\* C28: archive_multipgn always terminates on a finite PGN file: a game
\* whose processing raises IllegalMoveError is skipped and the later games
\* are still processed.
C28_ArchiveTerminates == <>(am_pc \in {"completed", "raised"})


=============================================================================
